---- MODULE Spec2Model ----
(***************************************************************************)
(* Model of scripts/extract_carandbike_new_bike_data.py: list discovery    *)
(* (fetch_bike_links_playwright, extract_list_item), detail extraction     *)
(* (extract_detailed_bike_info), download_page and the main loop with its  *)
(* two write-once caches.                                                  *)
(*                                                                         *)
(* Text is modelled as a sequence of one-character strings, so that        *)
(* replace, lower, count, startswith and substring tests are computed.     *)
(* The rupee sign of the price pattern is written "R".                     *)
(***************************************************************************)
EXTENDS Integers, Sequences, FiniteSets, TLC

VARIABLES
    page,           \* rendered listing markup: sequence of elements
    bikes,          \* fetch_bike_links_playwright: the list being built
    seen_links,     \* fetch_bike_links_playwright: Strategy B's seen set
    src,            \* history: the strategy that appended each entry of bikes
    ranB,           \* history: Strategy B's branch was entered
    di,             \* position of the discovery scan
    pc,             \* control point
    limit,          \* args.limit
    bikes_list,     \* main: the list the loop iterates
    i,              \* main: loop position (1-based)
    jsonFiles,      \* data/new_bike_details: file name -> saved record
    htmlFiles,      \* .temp/bikes_html: file name -> page text
    listFile,       \* data/new_bikes_list.json: content, or None
    success_count,  \* main: success_count
    run,            \* number of the current run of main
    net,            \* answers of the site in this run: set of <<link, answer>>
    same,           \* history: this run sees the answers of the previous run
    wlog,           \* history: files written in this run, in order
    fetchLog,       \* history: loop positions whose download was attempted in this run
    olog,           \* history: what each loop iteration of this run did, in order:
                    \* "skip" (record file exists), "fail" (download failed), "saved"
    prevFailed,     \* history: loop positions whose download failed in the previous run
    xcount,         \* history: extractions per record file name
    startFiles,     \* history: <<jsonFiles, htmlFiles, listFile>> when this run started
    doc,            \* extraction harness: the detail page given
    result          \* extraction harness: what extract_detailed_bike_info returned

vars == << page, bikes, seen_links, src, ranB, di, pc, limit, bikes_list, i,
           jsonFiles, htmlFiles, listFile, success_count, run, net, same, wlog,
           fetchLog, olog, prevFailed, xcount, startFiles, doc, result >>

-----------------------------------------------------------------------------
(* Bounds *)

MaxPage == 2
MaxRuns == 2
MaxRows == 2

-----------------------------------------------------------------------------
(* Text *)

None == [t |-> "null"]
Str(s) == [t |-> "str", v |-> s]
EmptyDict == [k \in {} |-> None]
\* the outcome of an expression that raises
Raised == [t |-> "raise"]

LowerChars == <<"a","b","c","d","e","f","g","h","i","j","k","l","m","n","o","p","q","r","s","t","u","v","w","x","y","z">>
UpperChars == <<"A","B","C","D","E","F","G","H","I","J","K","L","M","N","O","P","Q","R","S","T","U","V","W","X","Y","Z">>
Whitespace == {" ", "\t", "\n"}
Digits == {"0","1","2","3","4","5","6","7","8","9"}

LowerChar(c) ==
    IF \E k \in 1..26 : UpperChars[k] = c
    THEN LowerChars[CHOOSE k \in 1..26 : UpperChars[k] = c]
    ELSE c

\* str.lower()
Lower(s) == [k \in 1..Len(s) |-> LowerChar(s[k])]

\* str.replace(c, d) for one-character c and d
Replace(s, c, d) == [k \in 1..Len(s) |-> IF s[k] = c THEN d ELSE s[k]]

\* str.startswith(p)
StartsWith(s, p) == Len(s) >= Len(p) /\ SubSeq(s, 1, Len(p)) = p

\* sub in s
Contains(s, sub) ==
    \E k \in 0..(Len(s) - Len(sub)) : SubSeq(s, k + 1, k + Len(sub)) = sub

\* str.count(c) for one-character c
Count(s, c) == Cardinality({k \in 1..Len(s) : s[k] = c})

S_http == <<"h","t","t","p">>
S_bikes == <<"/","b","i","k","e","s","/">>
S_mileage == <<"m","i","l","e","a","g","e">>
S_INR == <<"I","N","R">>
S_json == <<".","j","s","o","n">>
S_html == <<".","h","t","m","l">>
BaseUrl == <<"h","t","t","p","s",":","/","/","w","w","w",".","c","a","r","a","n","d","b","i","k","e",".","c","o","m">>

\* href if href.startswith("http") else f"https://www.carandbike.com{href}"
Absolutize(href) == IF StartsWith(href, S_http) THEN href ELSE BaseUrl \o href

-----------------------------------------------------------------------------
\* line 108: re.search of the rupee sign, optional whitespace, then group(1): one or
\* more digits or commas, an optional dot, digits.  R is the rupee sign.

\* the end of the longest run of characters of set cs that starts at p
RECURSIVE RunEnd(_, _, _)
RunEnd(s, p, cs) ==
    IF p <= Len(s) /\ s[p] \in cs THEN RunEnd(s, p + 1, cs) ELSE p

\* group(1) of the match that starts at the sign at position p, or None
PriceAt(s, p) ==
    LET a == RunEnd(s, p + 1, Whitespace)
        b == RunEnd(s, a, Digits \cup {","})
        c == IF b <= Len(s) /\ s[b] = "." THEN b + 1 ELSE b
        d == RunEnd(s, c, Digits)
    IN  IF b > a THEN Str(SubSeq(s, a, d - 1)) ELSE None

price_match(text) ==
    LET hits == {p \in 1..Len(text) : text[p] = "R" /\ PriceAt(text, p) # None}
    IN  IF hits = {} THEN None
        ELSE PriceAt(text, CHOOSE p \in hits : \A q \in hits : p <= q)

-----------------------------------------------------------------------------
(* Listing markup.  An element is a grid <li> (grid = TRUE) or free markup;  *)
(* it holds its anchors in document order, an optional <img src> and the    *)
(* text that follows its anchors.  An anchor without href is one with href  *)
(* "" (line 95 reads it so; line 68 rejects both).                          *)

Anchor(text, href, tracker) == [text |-> text, href |-> href, tracker |-> tracker]
Element(grid, anchors, img, rest) ==
    [grid |-> grid, anchors |-> anchors, img |-> img, rest |-> rest]

H_ab == <<"/","b","i","k","e","s","/","a","/","b">>
H_ab_abs == BaseUrl \o H_ab
H_ac == <<"/","b","i","k","e","s","/","a","/","c">>
H_a == <<"/","b","i","k","e","s","/","a">>
H_cars == <<"/","c","a","r","s","/","x">>

T_a_b == <<"a"," ","b">>
T_aub == <<"a","_","b">>
T_asb == <<"a","/","b">>
T_a == <<"a">>
PriceText == <<"R"," ","2",",","0","5",",","0","0","0">>
ImgSrc == <<"i",".","p","n","g">>

ElementPool ==
    { Element(TRUE, <<Anchor(T_a_b, H_ab, TRUE)>>, Str(ImgSrc), PriceText),
      Element(TRUE, <<Anchor(T_aub, H_ab_abs, FALSE)>>, None, <<>>),
      Element(TRUE, <<Anchor(T_aub, H_ac, FALSE)>>, None, PriceText),
      Element(TRUE, <<>>, None, <<"x">>),
      Element(TRUE, <<Anchor(<<>>, H_ac, FALSE)>>, Str(ImgSrc), <<>>),
      Element(TRUE, <<Anchor(T_a, H_cars, FALSE), Anchor(T_asb, H_ac, TRUE)>>, None, <<>>),
      Element(FALSE, <<Anchor(T_a_b, H_ab, FALSE)>>, None, <<>>),
      Element(FALSE, <<Anchor(T_aub, H_ab_abs, FALSE)>>, None, <<>>),
      Element(FALSE, <<Anchor(T_a, H_a, FALSE), Anchor(<<>>, H_ac, FALSE)>>, None, <<>>) }

RECURSIVE SeqsUpTo(_, _)
SeqsUpTo(S, n) ==
    IF n = 0 THEN {<<>>}
    ELSE LET shorter == SeqsUpTo(S, n - 1)
         IN  shorter \cup {Append(s, e) : s \in {t \in shorter : Len(t) = n - 1}, e \in S}

Pages == SeqsUpTo(ElementPool, MaxPage)

\* li_item.get_text(): the text of the anchors, then the rest
RECURSIVE AnchorsText(_)
AnchorsText(as) ==
    IF as = <<>> THEN <<>> ELSE Head(as).text \o AnchorsText(Tail(as))

get_text(li) == AnchorsText(li.anchors) \o li.rest

-----------------------------------------------------------------------------
(* extract_list_item *)

\* li_item.find("a", class_=... "js-tracker" ...) or li_item.find("a")
title_tag(li) ==
    LET tracked == {k \in 1..Len(li.anchors) : li.anchors[k].tracker}
    IN  IF tracked # {} THEN li.anchors[CHOOSE k \in tracked : \A m \in tracked : k <= m]
        ELSE IF li.anchors # <<>> THEN li.anchors[1]
        ELSE None

extract_list_item(li) ==
    IF title_tag(li) = None THEN None
    ELSE LET a == title_tag(li)
             base == [title |-> a.text, link |-> Absolutize(a.href)]
             img == IF li.img # None THEN [image_link |-> li.img.v] ELSE EmptyDict
             m == price_match(get_text(li))
             price == IF m # None THEN [exshowroom_price |-> m.v] ELSE EmptyDict
         IN  base @@ img @@ price

\* if bike:
Truthy(bike) == bike # None /\ DOMAIN bike # {}

-----------------------------------------------------------------------------
(* fetch_bike_links_playwright *)

\* soup.find_all("a", href=lambda x: x and "/bikes/" in x), in document order
RECURSIVE AllAnchors(_)
AllAnchors(p) ==
    IF p = <<>> THEN <<>> ELSE Head(p).anchors \o AllAnchors(Tail(p))

links(p) == SelectSeq(AllAnchors(p), LAMBDA a : a.href # <<>> /\ Contains(a.href, S_bikes))

\* line 65: if not bikes
StrategyBNeeded_always(bs) == TRUE
StrategyBNeeded(bs) == bs = <<>>

MainUnchanged ==
    UNCHANGED << limit, bikes_list, i, jsonFiles, htmlFiles, listFile, success_count,
                 run, net, same, wlog, fetchLog, olog, prevFailed, xcount,
                 startFiles, doc, result >>

\* lines 57-62: one <li> of a grid <ul> (other markup is passed over)
GridItem ==
    /\ pc = "grid"
    /\ di <= Len(page)
    /\ LET li == page[di]
           bike == extract_list_item(li)
       IN  IF li.grid /\ Truthy(bike)
           THEN bikes' = Append(bikes, bike) /\ src' = Append(src, "A")
           ELSE UNCHANGED << bikes, src >>
    /\ di' = di + 1
    /\ UNCHANGED << page, seen_links, ranB, pc >>
    /\ MainUnchanged

\* line 65: the grids are exhausted
GridDone ==
    /\ pc = "grid"
    /\ di > Len(page)
    /\ IF StrategyBNeeded(bikes)
       THEN pc' = "links" /\ ranB' = TRUE /\ seen_links' = {}
       ELSE pc' = "found" /\ UNCHANGED << ranB, seen_links >>
    /\ di' = 1
    /\ UNCHANGED << page, bikes, src >>
    /\ MainUnchanged

\* lines 70-82: one link of Strategy B
LinkItem ==
    /\ pc = "links"
    /\ di <= Len(links(page))
    /\ LET link == links(page)[di]
           href == link.href
           title == link.text
       IN  IF href \notin seen_links /\ Count(href, "/") > 2 /\ title # <<>>
           THEN /\ bikes' = Append(bikes, [title |-> title, link |-> Absolutize(href)])
                /\ src' = Append(src, "B")
                /\ seen_links' = seen_links \cup {href}
           ELSE UNCHANGED << bikes, src, seen_links >>
    /\ di' = di + 1
    /\ UNCHANGED << page, ranB, pc >>
    /\ MainUnchanged

\* line 84: Strategy B is exhausted
LinkDone ==
    /\ pc = "links"
    /\ di > Len(links(page))
    /\ pc' = "found"
    /\ UNCHANGED << page, bikes, src, seen_links, ranB, di >>
    /\ MainUnchanged

-----------------------------------------------------------------------------
(* Detail pages.  A page holds its JSON-LD script (present or not, loadable  *)
(* by json.loads or not, and the loaded value) and the rows of its content  *)
(* cards, each row the texts of its <div> columns.  A JSON value is tagged:  *)
(* null, str, list or dict.                                                  *)

JDict(f) == [t |-> "dict", v |-> f]
JList(q) == [t |-> "list", v |-> q]
IsDict(x) == x.t = "dict"

\* dict.get(k)
Get(d, k) == IF k \in DOMAIN d.v THEN d.v[k] ELSE None

\* k in d, d a dict
Has(d, k) == k \in DOMAIN d.v

Script(present, parsed, data) == [present |-> present, parsed |-> parsed, data |-> data]
Page(script, rows) == [script |-> script, rows |-> rows]

V_Honda == Str(<<"H","o","n","d","a">>)
V_INR == Str(S_INR)
V_95000 == Str(<<"9","5","0","0","0">>)
V_350cc == Str(<<"3","5","0"," ","c","c">>)

J_offer == JDict([price |-> V_95000, priceCurrency |-> V_INR])
J_offerNoPrice == JDict([priceCurrency |-> V_INR])
J_engine == JDict([engineDisplacement |-> V_350cc])
J_full == JDict([name |-> V_Honda, vehicleEngine |-> J_engine, offers |-> J_offer,
                 brand |-> JDict([name |-> V_Honda])])
J_noPrice == JDict([name |-> V_Honda, offers |-> J_offerNoPrice])
J_noOffers == JDict([name |-> V_Honda])

ScriptAbsent == Script(FALSE, FALSE, None)
ScriptPool ==
    { ScriptAbsent,
      Script(TRUE, FALSE, None),
      Script(TRUE, TRUE, J_full),
      Script(TRUE, TRUE, J_noPrice),
      Script(TRUE, TRUE, J_noOffers),
      Script(TRUE, TRUE, JDict(EmptyDict)),
      Script(TRUE, TRUE, JDict("@graph" :> JList(<<J_full>>))),
      Script(TRUE, TRUE, JDict("@graph" :> JList(<<>>))),
      Script(TRUE, TRUE, JList(<<J_full>>)),
      Script(TRUE, TRUE, JDict([name |-> V_Honda, vehicleEngine |-> JList(<<>>),
                                offers |-> JList(<<J_offer>>)])),
      Script(TRUE, TRUE, JDict([name |-> V_Honda, offers |-> J_offer, brand |-> V_Honda])),
      Script(TRUE, TRUE, JDict([name |-> V_Honda, vehicleEngine |-> V_350cc])) }

L_MileageC == <<"M","i","l","e","a","g","e"," ","C">>
L_MILEAGE == <<"M","I","L","E","A","G","E">>
L_Power == <<"P","o","w","e","r">>
X_35 == <<"3","5"," ","k","m","p","l">>
X_40 == <<"4","0"," ","k","m","p","l">>
X_20 == <<"2","0"," ","b","h","p">>

RowPool ==
    { <<L_MileageC, X_35>>, <<L_MILEAGE, X_40>>, <<L_MileageC, X_40>>,
      <<L_Power, X_20>>, <<L_Power, X_20, X_35>> }

ExtractDocs == {Page(s, r) : s \in ScriptPool, r \in SeqsUpTo(RowPool, MaxRows)}

\* the pages the site serves in the pipeline
DocPool ==
    { Page(Script(TRUE, TRUE, J_full), <<>>),
      Page(Script(TRUE, TRUE, J_noPrice), << <<L_MileageC, X_35>> >>),
      Page(Script(TRUE, TRUE, J_noOffers), <<>>),
      Page(ScriptAbsent, << <<L_Power, X_20>> >>) }

-----------------------------------------------------------------------------
(* extract_detailed_bike_info *)

\* lines 125-126: data['@graph'][0]; Raised when the subscript raises
Unwrap(data) ==
    IF IsDict(data) /\ Has(data, "@graph")
    THEN LET g == data.v["@graph"]
         IN  IF g.t = "list" /\ g.v # <<>> THEN g.v[1]
             ELSE IF g.t = "str" /\ g.v # <<>> THEN Str(<<g.v[1]>>)
             ELSE Raised
    ELSE data

\* lines 129-136
basic_info(data) ==
    [name |-> Get(data, "name"), manufacturer |-> Get(data, "manufacturer"),
     model |-> Get(data, "model"), body_type |-> Get(data, "bodyType"),
     description |-> Get(data, "description"), sku |-> Get(data, "sku")]

\* lines 142-143
engine_data(data) ==
    LET e == data.v["vehicleEngine"]
    IN  IF e.t = "list" THEN (IF e.v # <<>> THEN e.v[1] ELSE JDict(EmptyDict)) ELSE e

\* lines 145-150
engine(e) ==
    [displacement |-> Get(e, "engineDisplacement"), power |-> Get(e, "enginePower"),
     torque |-> Get(e, "torque"), fuel_type |-> Get(e, "fuelType")]

\* lines 155-159
price(offer) ==
    [value |-> Get(offer, "price"), currency |-> Get(offer, "priceCurrency"),
     availability |-> Get(offer, "availability")]

Out(details, err) == [details |-> details, err |-> err]

\* lines 119-166: the JSON-LD part; err is the diagnostic of line 166.  A .get on a
\* value that is no dict raises, and what was assigned before stays assigned.
json_ld(script) ==
    IF ~script.present THEN Out(EmptyDict, FALSE)
    ELSE IF ~script.parsed THEN Out(EmptyDict, TRUE)
    ELSE LET data == Unwrap(script.data)
         IN  IF data = Raised THEN Out(EmptyDict, TRUE)
             ELSE IF ~IsDict(data) THEN Out(EmptyDict, TRUE)
             ELSE
             LET d1 == [basic_info |-> basic_info(data)]
                 hasE == Has(data, "vehicleEngine")
                 e == IF hasE THEN engine_data(data) ELSE None
                 d2 == IF hasE THEN d1 @@ [engine |-> engine(e)] ELSE d1
                 hasO == Has(data, "offers")
                 o == IF hasO THEN data.v["offers"] ELSE None
                 d3 == IF hasO THEN d2 @@ [price |-> price(o)] ELSE d2
                 hasB == Has(data, "brand")
                 b == IF hasB THEN data.v["brand"] ELSE None
                 d4 == IF hasB THEN d3 @@ [brand |-> [name |-> Get(b, "name")]] ELSE d3
             IN  IF hasE /\ ~IsDict(e) THEN Out(d1, TRUE)
                 ELSE IF hasO /\ ~IsDict(o) THEN Out(d2, TRUE)
                 ELSE IF hasB /\ ~IsDict(b) THEN Out(d3, TRUE)
                 ELSE Out(d4, FALSE)

\* specs[key] = val on an insertion-ordered dict, kept as a sequence of <<key, val>>
DictSet(od, k, v) ==
    IF \E n \in 1..Len(od) : od[n][1] = k
    THEN [n \in 1..Len(od) |-> IF od[n][1] = k THEN <<k, v>> ELSE od[n]]
    ELSE Append(od, <<k, v>>)

\* lines 172-179
RECURSIVE scrape(_, _)
scrape(rows, specs) ==
    IF rows = <<>> THEN specs
    ELSE LET cols == Head(rows)
         IN  scrape(Tail(rows),
                    IF Len(cols) = 2 THEN DictSet(specs, cols[1], cols[2]) ELSE specs)

\* line 189: bike_details.setdefault('fuel', {})['efficiency'] = v
set_efficiency(details, v) ==
    [fuel |-> [efficiency |-> v]] @@ details

\* lines 187-189
RECURSIVE fill_mileage(_, _)
fill_mileage(details, items) ==
    IF items = <<>> THEN details
    ELSE LET k == Head(items)[1]
             v == Head(items)[2]
         IN  fill_mileage(IF Contains(Lower(k), S_mileage)
                          THEN set_efficiency(details, v) ELSE details,
                          Tail(items))

\* lines 170-189
fallback(details, rows) ==
    LET specs == scrape(rows, <<>>)
    IN  IF specs # <<>>
        THEN LET d == details @@ [scraped_specs |-> specs]
             IN  IF "mileage" \notin DOMAIN d THEN fill_mileage(d, specs) ELSE d
        ELSE details

extract_detailed_bike_info(soup) ==
    LET s == json_ld(soup.script)
    IN  Out(fallback(s.details, soup.rows), s.err)

InitDiscovery ==
    /\ page \in Pages
    /\ bikes = <<>>
    /\ seen_links = {}
    /\ src = <<>>
    /\ ranB = FALSE
    /\ di = 1
    /\ pc = "grid"

InitMain ==
    /\ bikes_list = <<>>
    /\ i = 1
    /\ jsonFiles = EmptyDict
    /\ htmlFiles = EmptyDict
    /\ listFile = None
    /\ success_count = 0
    /\ run = 1
    /\ net = {}
    /\ same = FALSE
    /\ wlog = <<>>
    /\ fetchLog = <<>>
    /\ olog = <<>>
    /\ prevFailed = {}
    /\ xcount = EmptyDict
    /\ startFiles = << EmptyDict, EmptyDict, None >>

InitHarness ==
    /\ doc = None
    /\ result = None

(* Discovery alone, over every page of the pool *)
DiscoveryInit == InitDiscovery /\ InitMain /\ InitHarness /\ limit = None
DiscoveryNext == GridItem \/ GridDone \/ LinkItem \/ LinkDone
SpecDiscovery == DiscoveryInit /\ [][DiscoveryNext]_vars

-----------------------------------------------------------------------------
(* download_page and main *)

JInt(n) == [t |-> "int", v |-> n]
LimitPool == {None, JInt(0), JInt(1), JInt(-1)}

\* bikes_list[:n]
Slice(q, n) ==
    LET m == IF n >= 0 THEN (IF n < Len(q) THEN n ELSE Len(q))
             ELSE (IF Len(q) + n > 0 THEN Len(q) + n ELSE 0)
    IN  SubSeq(q, 1, m)

\* line 237: title.replace(' ', '_').replace('/', '_') + ".json"
safe_filename(title) == Replace(Replace(title, " ", "_"), "/", "_") \o S_json

\* line 244: title.replace(' ', '_') + ".html", under temp_dir
html_filename(title) == Replace(title, " ", "_") \o S_html

\* line 240: json_path.exists()
json_exists_never(json_path, files) == FALSE
json_exists(json_path, files) == json_path \in DOMAIN files

\* line 245: html_filename.exists()
html_exists(path, files) == path \in DOMAIN files

\* line 198: open(output_path, 'w') raises when the name has a directory part, which
\* nothing creates (no title of the pool starts with "/")
OpenFails(path) == Contains(path, <<"/">>)

Fail == [t |-> "fail"]

\* lines 195-203: the answer is Fail (requests.get or raise_for_status raised) or the
\* page text.  The result is <<returned value, files afterwards>>.
download_page_leaves_file(answer, output_path, files) ==
    IF OpenFails(output_path) THEN << FALSE, files >>
    ELSE IF answer = Fail THEN << FALSE, (output_path :> Page(ScriptAbsent, <<>>)) @@ files >>
    ELSE << TRUE, (output_path :> answer) @@ files >>
download_page(answer, output_path, files) ==
    IF answer = Fail \/ OpenFails(output_path) THEN << FALSE, files >>
    ELSE << TRUE, (output_path :> answer) @@ files >>

\* lines 246-247: continue
after_failed_download_retry(k) == k
after_failed_download(k) == k + 1

\* lines 257-258
merge_name_if_missing(details, title) ==
    IF "basic_info" \notin DOMAIN details
    THEN details @@ [basic_info |-> [name |-> Str(title)]]
    ELSE IF details.basic_info.name = None
    THEN [details EXCEPT !.basic_info = [name |-> Str(title)] @@ @]
    ELSE details
merge_name(details, title) ==
    LET d == IF "basic_info" \notin DOMAIN details
             THEN details @@ [basic_info |-> EmptyDict] ELSE details
    IN  [d EXCEPT !.basic_info = [name |-> Str(title)] @@ @]

\* lines 259-260
merge_price(details, bike) ==
    IF "exshowroom_price" \in DOMAIN bike /\ "price" \notin DOMAIN details
    THEN details @@ [price |-> [value |-> Str(bike.exshowroom_price), currency |-> Str(S_INR)]]
    ELSE details

\* the answers the site may give for a link in this run
Answers(link) ==
    IF \E a \in net : a[1] = link THEN {a[2] : a \in {b \in net : b[1] = link}}
    ELSE {Fail} \cup DocPool

Bump(f, k) == IF k \in DOMAIN f THEN [f EXCEPT ![k] = @ + 1] ELSE f @@ (k :> 1)

DiscoveryUnchanged == UNCHANGED << page, bikes, seen_links, src, ranB, di >>

\* lines 217-231
StartMain ==
    /\ pc = "found"
    /\ IF bikes = <<>>
       THEN /\ pc' = "exit"
            /\ UNCHANGED << bikes_list, listFile, wlog >>
       ELSE LET cut == IF limit # None /\ limit.v # 0 THEN Slice(bikes, limit.v) ELSE bikes
            IN  /\ bikes_list' = cut
                /\ listFile' = JList(cut)
                /\ wlog' = Append(wlog, <<"list">>)
                /\ pc' = "loop"
    /\ i' = 1
    /\ success_count' = 0
    /\ DiscoveryUnchanged
    /\ UNCHANGED << limit, jsonFiles, htmlFiles, run, net, same, fetchLog, olog,
                    prevFailed, xcount, startFiles, doc, result >>

\* lines 234-266: one iteration of the loop
ProcessBike ==
    /\ pc = "loop"
    /\ i <= Len(bikes_list)
    /\ LET bike == bikes_list[i]
           title == bike.title
           link == bike.link
           json_path == safe_filename(title)
           html_path == html_filename(title)
       IN  IF json_exists(json_path, jsonFiles)
           THEN /\ i' = i + 1
                /\ olog' = Append(olog, "skip")
                /\ UNCHANGED << jsonFiles, htmlFiles, success_count, net, wlog, fetchLog,
                                xcount >>
           ELSE \E answer \in Answers(link) :
                LET cached == html_exists(html_path, htmlFiles)
                    dl == IF cached THEN << TRUE, htmlFiles >>
                          ELSE download_page(answer, html_path, htmlFiles)
                IN  /\ net' = IF cached THEN net ELSE net \cup {<< link, answer >>}
                    /\ fetchLog' = IF cached THEN fetchLog ELSE Append(fetchLog, i)
                    /\ htmlFiles' = dl[2]
                    /\ IF ~dl[1]
                       THEN /\ i' = after_failed_download(i)
                            /\ olog' = Append(olog, "fail")
                            /\ wlog' = IF dl[2] # htmlFiles
                                       THEN Append(wlog, <<"html", html_path>>) ELSE wlog
                            /\ UNCHANGED << jsonFiles, success_count, xcount >>
                       ELSE LET soup == dl[2][html_path]
                                details == extract_detailed_bike_info(soup).details
                                merged == merge_price(merge_name(details, title), bike)
                            IN  /\ jsonFiles' = (json_path :> merged) @@ jsonFiles
                                /\ wlog' = (IF cached THEN wlog
                                            ELSE Append(wlog, <<"html", html_path>>))
                                           \o << <<"json", json_path>> >>
                                /\ xcount' = Bump(xcount, json_path)
                                /\ success_count' = success_count + 1
                                /\ olog' = Append(olog, "saved")
                                /\ i' = i + 1
    /\ DiscoveryUnchanged
    /\ UNCHANGED << pc, limit, bikes_list, listFile, run, same, prevFailed, startFiles,
                    doc, result >>

\* line 268: the loop is over
LoopDone ==
    /\ pc = "loop"
    /\ i > Len(bikes_list)
    /\ pc' = "done"
    /\ DiscoveryUnchanged
    /\ MainUnchanged

\* the script is started again on the same listing markup with the same --limit and the
\* files the earlier runs left; the site answers as before (same) or anew
Rerun ==
    /\ pc \in {"done", "exit"}
    /\ run < MaxRuns
    /\ run' = run + 1
    /\ bikes' = <<>> /\ seen_links' = {} /\ src' = <<>> /\ ranB' = FALSE /\ di' = 1
    /\ pc' = "grid"
    /\ bikes_list' = <<>> /\ i' = 1 /\ success_count' = 0
    /\ wlog' = <<>> /\ fetchLog' = <<>> /\ olog' = <<>>
    /\ prevFailed' = {k \in 1..Len(olog) : olog[k] = "fail"}
    /\ startFiles' = << jsonFiles, htmlFiles, listFile >>
    /\ \E keep \in BOOLEAN : same' = keep /\ net' = IF keep THEN net ELSE {}
    /\ UNCHANGED << page, limit, jsonFiles, htmlFiles, listFile, xcount, doc, result >>

Init == InitDiscovery /\ InitMain /\ InitHarness /\ limit \in LimitPool
Next ==
    \/ GridItem \/ GridDone \/ LinkItem \/ LinkDone
    \/ StartMain \/ ProcessBike \/ LoopDone \/ Rerun
Spec == Init /\ [][Next]_vars

(* Extraction alone, over every detail page of the pool *)
Extract ==
    /\ pc = "harness"
    /\ result = None
    /\ result' = extract_detailed_bike_info(doc)
    /\ UNCHANGED << page, bikes, seen_links, src, ranB, di, pc, limit, bikes_list, i,
                    jsonFiles, htmlFiles, listFile, success_count, run, net, same, wlog,
                    fetchLog, olog, prevFailed, xcount, startFiles, doc >>

ExtractInit ==
    /\ page = <<>> /\ bikes = <<>> /\ seen_links = {} /\ src = <<>> /\ ranB = FALSE
    /\ di = 1 /\ pc = "harness" /\ limit = None
    /\ InitMain
    /\ doc \in ExtractDocs
    /\ result = None
ExtractNext == Extract
SpecExtract == ExtractInit /\ [][ExtractNext]_vars

-----------------------------------------------------------------------------
(* Properties *)

Range(q) == {q[k] : k \in 1..Len(q)}

\* the loop iteration that ended last saved a record; Cur is its candidate
JustSaved == olog # <<>> /\ olog[Len(olog)] = "saved"
JustFailed == olog # <<>> /\ olog[Len(olog)] = "fail"
JustSkipped == olog # <<>> /\ olog[Len(olog)] = "skip"
Cur == bikes_list[Len(olog)]
CurRecord == jsonFiles[safe_filename(Cur.title)]
CurSoup == htmlFiles[html_filename(Cur.title)]

\* C1: the list that discovery returns holds no two candidates with the same link.
C1_NoDuplicateLinks ==
    pc = "found" =>
        \A a, b \in 1..Len(bikes) : a # b => bikes[a].link # bikes[b].link

\* C2, as claimed: a run that follows another with the site answering as before and
\* the files the earlier run left writes no file at all.
C2_NoWriteOnSecondRun ==
    (run >= 2 /\ same) => wlog = <<>>

\* C2, amended: such a run writes no record file and no raw-page file; the only file
\* it writes is the listing file, with the content it already had.
C2_OnlyListingRewritten ==
    (run >= 2 /\ same) =>
        /\ \A k \in 1..Len(wlog) : wlog[k] = <<"list">>
        /\ jsonFiles = startFiles[1]
        /\ htmlFiles = startFiles[2]
        /\ listFile = startFiles[3]

\* C2 witness: a second run under unchanged answers has ended; the first run had saved
\* records and had failed downloads, and the listing file was written again.
C2_Witness ==
    /\ run = 2 /\ same /\ pc = "done"
    /\ prevFailed # {}
    /\ "skip" \in Range(olog)
    /\ wlog = << <<"list">> >>

\* the labels of the spec table that contain "mileage", by position in scan order
MileageHits(specs) == {n \in 1..Len(specs) : Contains(Lower(specs[n][1]), S_mileage)}

\* C3: when labels of the spec table contain "mileage", fuel.efficiency is the value of
\* the first of them in scan order.
C3_FirstMileageWins ==
    result # None =>
        LET specs == scrape(doc.rows, <<>>)
            hits == MileageHits(specs)
        IN  hits # {} =>
                /\ "fuel" \in DOMAIN result.details
                /\ result.details.fuel.efficiency
                      = specs[CHOOSE n \in hits : \A m \in hits : n <= m][2]

\* the JSON-LD block of a page supplies no price: nothing of it is mapped, it has no
\* offers, or its offers have no price
NoStructuredPrice(soup) ==
    LET d == json_ld(soup.script).details
    IN  "price" \notin DOMAIN d \/ d.price.value = None

\* C4: a saved record whose page supplied no structured price and whose candidate has
\* a list price has price.value equal to the list price and price.currency "INR".
C4_ListPriceFallback ==
    JustSaved =>
        (("exshowroom_price" \in DOMAIN Cur /\ NoStructuredPrice(CurSoup)) =>
            /\ "price" \in DOMAIN CurRecord
            /\ CurRecord.price.value = Str(Cur.exshowroom_price)
            /\ CurRecord.price.currency = Str(S_INR))

\* C5: every candidate for which a record is saved has a non-empty title and link.
C5_SavedCandidateNonEmpty ==
    JustSaved => (Cur.title # <<>> /\ Cur.link # <<>>)

\* C6: when the JSON-LD block is absent, or loading or mapping it raised, none of
\* basic_info, engine, price and brand is in the returned record.
C6_EmptyStructuredOnError ==
    (result # None /\ (~doc.script.present \/ result.err)) =>
        DOMAIN result.details \cap {"basic_info", "engine", "price", "brand"} = {}

\* C7: a record file that exists is never written again and its item never extracted
\* again, in this run or a later one: each step leaves its content and the number of
\* extractions for its name as they were.
C7_WriteOnce ==
    [][\A f \in DOMAIN jsonFiles :
          /\ f \in DOMAIN jsonFiles'
          /\ jsonFiles'[f] = jsonFiles[f]
          /\ xcount'[f] = xcount[f]]_vars

\* C7 witness: in the first run a candidate was skipped whose title differs from the
\* title the existing record was saved for: two titles of one run with one file name.
C7_Witness ==
    /\ run = 1
    /\ JustSkipped
    /\ CurRecord.basic_info.name # Str(Cur.title)
    /\ xcount[safe_filename(Cur.title)] = 1

\* right after a failed download neither file of the item exists
C8_NothingLeft ==
    JustFailed =>
        LET bike == bikes_list[fetchLog[Len(fetchLog)]]
        IN  /\ html_filename(bike.title) \notin DOMAIN htmlFiles
            /\ safe_filename(bike.title) \notin DOMAIN jsonFiles

\* no loop position is downloaded twice in one run
C8_NoRetry ==
    \A a, b \in 1..Len(fetchLog) : a # b => fetchLog[a] # fetchLog[b]

\* a run that ends has gone through every candidate
C8_AllProcessed ==
    pc = "done" => Len(olog) = Len(bikes_list)

\* a list without the duplicates and empty titles that C1 and C5 are about
CleanList ==
    /\ \A a, b \in 1..Len(bikes_list) : a # b => bikes_list[a].link # bikes_list[b].link
    /\ \A a \in 1..Len(bikes_list) : bikes_list[a].title # <<>>

\* C8, as claimed: a failed download leaves no file, is not retried in the run, does not
\* stop the loop, and the item is downloaded again by the next run.  The last part is
\* stated for clean lists only, so that what refutes it is no effect of C1 or C5.
C8_FailedFetchRetriedNextRun ==
    /\ C8_NothingLeft
    /\ C8_NoRetry
    /\ C8_AllProcessed
    /\ (run >= 2 /\ pc = "done" /\ CleanList) =>
          \A k \in prevFailed : k \in Range(fetchLog)

\* C8, amended: as claimed, except that the next run downloads the item again unless a
\* record file exists for its file name when the run reaches it, in which case the run
\* skips it.
C8_FailedFetchRetriedUnlessSaved ==
    /\ C8_NothingLeft
    /\ C8_NoRetry
    /\ C8_AllProcessed
    /\ (run >= 2 /\ pc = "done") =>
          \A k \in prevFailed : k \in Range(fetchLog) \/ olog[k] = "skip"

\* C8 witness: the second run has ended; a download that failed in the first run, with
\* candidates after it, was attempted again and its record saved.
C8_Witness ==
    /\ run = 2 /\ pc = "done"
    /\ \E k \in prevFailed :
          /\ k < Len(bikes_list)
          /\ k \in Range(fetchLog)
          /\ olog[k] = "saved"

\* C9: in every record saved, basic_info.name is the title of the candidate.
C9_NameIsTitle ==
    JustSaved =>
        /\ "basic_info" \in DOMAIN CurRecord
        /\ CurRecord.basic_info.name = Str(Cur.title)

\* C9 witness: a record was saved from a page whose JSON-LD block names the item
\* otherwise than the candidate's title.
C9_Witness ==
    /\ JustSaved
    /\ LET d == json_ld(CurSoup.script).details
       IN  /\ "basic_info" \in DOMAIN d
           /\ d.basic_info.name # None
           /\ d.basic_info.name # Str(Cur.title)

\* C10: the result comes from one strategy: entries of the grid strategy exclude that
\* Strategy B was entered, and no result mixes entries of both.
C10_OneStrategy ==
    /\ ("A" \in Range(src)) => (~ranB /\ Range(src) = {"A"})
    /\ Range(src) \subseteq {"A"} \/ Range(src) \subseteq {"B"}
    /\ Len(src) = Len(bikes)
    /\ (pc = "found" /\ bikes = <<>>) => ranB

\* C10 witness: discovery returned grid entries from a page on which Strategy B would
\* have accepted a link.
C10_Witness ==
    /\ pc = "found"
    /\ bikes # <<>>
    /\ src[1] = "A"
    /\ \E k \in 1..Len(links(page)) :
          Count(links(page)[k].href, "/") > 2 /\ links(page)[k].text # <<>>

====
